---- MODULE Spec2Model ----
(***************************************************************************)
(* Model of the indexing pipeline of DrivingManualAgent:                   *)
(*   - the Enrichment Job Runner: IndexerRunner (trigger_indexer.py) and   *)
(*     IndexerPipelineRunner (run_indexer_pipeline.py), polling a remote   *)
(*     indexer of the search service;                                      *)
(*   - the Chunker: DocumentIndexer.chunk_text (index_documents.py);       *)
(*   - the Embedder and Index Writer: generate_embeddings, upload_to_search,*)
(*     index_document and index_all_documents (index_documents.py);        *)
(*   - the EnrichmentValidator (validate_enrichment.py).                   *)
(* Times are whole seconds; a caller's clock advances by its sleeps (a     *)
(* remote call takes no time).  The remote search service is an external   *)
(* collaborator: it is modelled as the state machine of the indexer states *)
(* documented in trigger_indexer.py, moving on its own.                    *)
(***************************************************************************)
EXTENDS Integers, Sequences, FiniteSets, TLC

VARIABLES
    \* ---- remote indexer (one indexer name) ----
    latest,        \* latest execution: execution_history[0] / last_result
    pending,       \* a run was accepted but is not yet in the execution history
    runs,          \* number of executions the service has started
    script,        \* scripted remote service: its answers and how many were given
    \* ---- callers of the runner APIs (per caller) ----
    pc,            \* position of the caller
    op,            \* the public method the caller is inside
    timeout,       \* timeout argument
    poll_interval, \* poll_interval argument
    elapsed,       \* time.time() - start_time at the top of the loop
    check_count,   \* _monitor_execution: check_count
    sleep_time,    \* seconds slept after the most recent status check
    last_status,   \* wait_for_completion: last_status
    read,          \* answer of the service to the most recent status read of this call
    lastCall,      \* most recent remote operation issued by this call
    ret,           \* value returned by the call
    exit,          \* which return statement produced ret
    \* ---- chunker ----
    chunk_size, chunk_overlap, pages, cpc, page_idx, start, chunks,
    document_id,   \* chunk_text: the document_id argument
    \* ---- chunk ids ----
    id_args,       \* two (document_id, page_number, start) triples
    id_vals,       \* the chunk ids computed from them
    \* ---- document indexer ----
    pdf_names,     \* index_all_documents: result of list_pdfs
    doc_pos,       \* position of the for loop over pdf_names
    ipc,           \* position inside index_all_documents / index_document
    batch_pos,     \* index_document: i of the batch loop
    batch,         \* index_document: chunks[i:i + batch_size]
    texts,         \* generate_embeddings: its argument
    embeddings,    \* generate_embeddings: its return value
    index,         \* the search index: chunk_id -> stored record
    attempted,     \* blob names index_document was called with in this run
    upload_results,\* per-chunk results the service gave for the current document
    result,        \* what the most recent index_document that ended returned
    run,           \* number of index_all_documents runs started
    clean,         \* no call of the first run failed or came back short
    response,      \* answer of the embedding service to the most recent request
    \* ---- enrichment validator ----
    uploaded_docs, \* result of get_uploaded_documents
    indexed_docs,  \* result of get_indexed_documents
    report,        \* return value of validate_all_documents
    vpc            \* position of validate_all_documents

remoteVars == <<latest, pending, runs>>
callerVars == <<pc, op, timeout, poll_interval, elapsed, check_count, sleep_time,
                last_status, read, lastCall, ret, exit>>
chunkVars == <<chunk_size, chunk_overlap, pages, cpc, page_idx, start, chunks, document_id>>
idVars == <<id_args, id_vals>>
indexVars == <<pdf_names, doc_pos, ipc, batch_pos, batch, texts, embeddings, index,
               attempted, upload_results, result, run, clean, response>>
validateVars == <<uploaded_docs, indexed_docs, report, vpc>>
runnerVars == <<remoteVars, script, callerVars>>
vars == <<latest, pending, runs, script, pc, op, timeout, poll_interval, elapsed,
          check_count, sleep_time, last_status, read, lastCall, ret, exit,
          chunk_size, chunk_overlap, pages, cpc, page_idx, start, chunks, document_id,
          id_args, id_vals,
          pdf_names, doc_pos, ipc, batch_pos, batch, texts, embeddings, index,
          attempted, upload_results, result, run, clean, response,
          uploaded_docs, indexed_docs, report, vpc>>

(***************************************************************************)
(* Bounds of the model                                                     *)
(***************************************************************************)
MaxTimeout == 30
MaxRuns == 2
MaxErrors == 2
MaxFailed == 3
MaxLen == 4
MaxChunkSize == 3
MaxScript == 3
MaxOffset == 11
batch_size == 2
MaxIndexRuns == 2
MaxCopies == 8
MaxSample == 20

(***************************************************************************)
(* Program constants                                                       *)
(***************************************************************************)
DefaultPollInterval == 10
BackoffBase == 2
BackoffCap == 10
ErrorSleep == 5

Callers == {"c1", "c2"}
Timeouts == {MaxTimeout - 18, MaxTimeout}
PollIntervals == {DefaultPollInterval}

Min(a, b) == IF a < b THEN a ELSE b

(***************************************************************************)
(* Remote executions and the values the runner builds from them            *)
(***************************************************************************)
ErrorKeys == <<"doc1", "doc2", "doc3", "doc4">>

\* the error objects of an execution: n ErrorRecords, keyed doc1..docn
ErrorRecords(n) == [i \in 1..n |-> [key |-> ErrorKeys[((i - 1) % 4) + 1], error_message |-> "failed"]]

NoExec == [status |-> "none", items_failed |-> 0, errors |-> <<>>, id |-> 0]

InProgressStates == {"queued", "running", "transientFailure"}

PyNone == [tag |-> "None"]

format_error(error) ==
    [message |-> error.error_message, key |-> error.key,
     error_message |-> error.error_message]

\* get_status keeping only the first error of the execution
get_status_truncated(ok, ex) ==
    IF ~ok THEN PyNone
    ELSE IF ex.status = "none"
         THEN [tag |-> "dict", has_last_result |-> FALSE]
         ELSE [tag |-> "dict", has_last_result |-> TRUE,
               last_result |->
                   [status |-> ex.status,
                    start_time |-> ex.id,
                    items_failed |-> ex.items_failed,
                    errors |-> [i \in 1..Min(1, Len(ex.errors)) |-> format_error(ex.errors[i])]]]

\* IndexerRunner.get_status: ok = FALSE when the SDK call raises
get_status(ok, ex) ==
    IF ~ok THEN PyNone
    ELSE IF ex.status = "none"
         THEN [tag |-> "dict", has_last_result |-> FALSE]
         ELSE [tag |-> "dict", has_last_result |-> TRUE,
               last_result |->
                   [status |-> ex.status,
                    start_time |-> ex.id,
                    items_failed |-> ex.items_failed,
                    errors |-> [i \in 1..Len(ex.errors) |-> format_error(ex.errors[i])]]]

NoScript == [answers |-> <<>>, pos |-> 0]

\* what get_indexer_status answered: it raised, or the latest execution
NoRead == [any |-> FALSE, ok |-> FALSE, ex |-> NoExec]
Answer(ok, ex) == [any |-> TRUE, ok |-> ok, ex |-> IF ok THEN ex ELSE NoExec]
ReadStatus(r) == IF ~r.any THEN "none" ELSE IF ~r.ok THEN "raised" ELSE r.ex.status

NoRet == [tag |-> "none"]
Tuple(success, status) == [tag |-> "tuple", success |-> success, status |-> status]
Bool(b) == [tag |-> "bool", value |-> b]
Raised == [tag |-> "raised"]

(***************************************************************************)
(* The remote service                                                      *)
(***************************************************************************)
\* run_indexer is accepted only while no execution is in progress
CanAccept == ~pending /\ latest.status \notin InProgressStates /\ runs < MaxRuns

RemoteAppear ==
    /\ pending
    /\ latest' = [status |-> "queued", items_failed |-> 0, errors |-> <<>>, id |-> runs + 1]
    /\ runs' = runs + 1
    /\ pending' = FALSE
    /\ UNCHANGED <<script, callerVars, chunkVars, idVars, indexVars, validateVars>>

RemoteRunning ==
    /\ latest.status \in {"queued", "transientFailure"}
    /\ latest' = [latest EXCEPT !.status = "running"]
    /\ UNCHANGED <<pending, runs, script, callerVars, chunkVars, idVars, indexVars, validateVars>>

RemoteFinish ==
    /\ latest.status = "running"
    /\ \E s \in {"success", "transientFailure", "persistentFailure"} :
       \E f \in {0, MaxFailed} :
       \E n \in 0..MaxErrors :
          /\ (s = "transientFailure") => (f = 0 /\ n = 1)
          /\ latest' = [latest EXCEPT !.status = s, !.items_failed = f,
                                      !.errors = ErrorRecords(n)]
    /\ UNCHANGED <<pending, runs, script, callerVars, chunkVars, idVars, indexVars, validateVars>>

(***************************************************************************)
(* Caller-local helpers                                                    *)
(***************************************************************************)
Enter(c, o, p, t, i) ==
    /\ pc' = [pc EXCEPT ![c] = p]
    /\ op' = [op EXCEPT ![c] = o]
    /\ timeout' = [timeout EXCEPT ![c] = t]
    /\ poll_interval' = [poll_interval EXCEPT ![c] = i]

Finish(c, r, e) ==
    /\ pc' = [pc EXCEPT ![c] = "done"]
    /\ ret' = [ret EXCEPT ![c] = r]
    /\ exit' = [exit EXCEPT ![c] = e]

(***************************************************************************)
(* IndexerRunner                                                           *)
(***************************************************************************)
\* trigger_run: TRUE iff the service accepted the run
trigger_run(c, accepted) ==
    /\ accepted => CanAccept
    /\ pending' = (pending \/ accepted)
    /\ lastCall' = [lastCall EXCEPT ![c] = "run_indexer"]
    /\ UNCHANGED <<latest, runs>>

TriggerRun(c) ==
    /\ pc[c] = "idle"
    /\ \E accepted \in BOOLEAN :
          /\ trigger_run(c, accepted)
          /\ Finish(c, Bool(accepted), "trigger_run")
    /\ op' = [op EXCEPT ![c] = "trigger_run"]
    /\ UNCHANGED <<script, timeout, poll_interval, elapsed, check_count, sleep_time,
                   last_status, read, chunkVars, idVars, indexVars, validateVars>>

reset_indexer(c, accepted) ==
    /\ accepted => (~pending /\ latest.status \notin InProgressStates)
    /\ latest' = IF accepted THEN NoExec ELSE latest
    /\ lastCall' = [lastCall EXCEPT ![c] = "reset_indexer"]
    /\ UNCHANGED <<pending, runs>>

ResetIndexer(c) ==
    /\ pc[c] = "idle"
    /\ \E accepted \in BOOLEAN :
          /\ reset_indexer(c, accepted)
          /\ Finish(c, Bool(accepted), "reset_indexer")
    /\ op' = [op EXCEPT ![c] = "reset_indexer"]
    /\ UNCHANGED <<script, timeout, poll_interval, elapsed, check_count, sleep_time,
                   last_status, read, chunkVars, idVars, indexVars, validateVars>>

\* run_and_wait up to time.sleep(5)
RunAndWait(c, t, i) ==
    /\ pc[c] = "idle"
    /\ \E accepted \in BOOLEAN :
          /\ trigger_run(c, accepted)
          /\ IF accepted
             THEN /\ Enter(c, "run_and_wait", "run_and_wait", t, i)
                  /\ UNCHANGED <<ret, exit>>
             ELSE /\ Finish(c, Tuple(FALSE, PyNone), "trigger_failed")
                  /\ op' = [op EXCEPT ![c] = "run_and_wait"]
                  /\ UNCHANGED <<timeout, poll_interval>>
    /\ UNCHANGED <<script, elapsed, check_count, sleep_time, last_status, read, chunkVars, idVars, indexVars, validateVars>>

\* run_and_wait: the 5 s are over, wait_for_completion starts its clock
RunAndWaitStart(c) ==
    /\ pc[c] = "run_and_wait"
    /\ pc' = [pc EXCEPT ![c] = "wait_for_completion"]
    /\ UNCHANGED <<remoteVars, script, op, timeout, poll_interval, elapsed, check_count,
                   sleep_time, last_status, read, lastCall, ret, exit, chunkVars, idVars, indexVars, validateVars>>

\* wait_for_completion called on its own
WaitForCompletion(c, t, i) ==
    /\ pc[c] = "idle"
    /\ Enter(c, "wait_for_completion", "wait_for_completion", t, i)
    /\ UNCHANGED <<remoteVars, script, elapsed, check_count, sleep_time, last_status, read,
                   lastCall, ret, exit, chunkVars, idVars, indexVars, validateVars>>

\* the timeout check at the top of the loop: elapsed > timeout
wait_timed_out(e, t) == e > t

\* wait_for_completion giving up as soon as the run is seen running
wait_terminal_states_running == {"success", "persistentFailure", "running"}

\* the result states on which wait_for_completion returns
wait_terminal_states == {"success", "persistentFailure"}

\* one iteration of the while True loop of wait_for_completion; (ok, ex) is the
\* answer of the service to get_indexer_status
wait_for_completion(c, ok, ex) ==
    /\ pc[c] = "wait_for_completion"
    /\ IF wait_timed_out(elapsed[c], timeout[c])
       THEN /\ Finish(c, Tuple(FALSE, last_status[c]), "timeout")
            /\ UNCHANGED <<elapsed, sleep_time, last_status, read, lastCall>>
       ELSE LET status == get_status(ok, ex) IN
            /\ lastCall' = [lastCall EXCEPT ![c] = "get_indexer_status"]
            /\ read' = [read EXCEPT ![c] = Answer(ok, ex)]
            /\ IF status = PyNone
               THEN /\ Finish(c, Tuple(FALSE, PyNone), "status_none")
                    /\ UNCHANGED <<elapsed, sleep_time, last_status>>
               ELSE /\ last_status' = [last_status EXCEPT ![c] = status]
                    /\ IF status.has_last_result
                          /\ status.last_result.status \in wait_terminal_states
                       THEN /\ IF status.last_result.status = "success"
                               THEN Finish(c, Tuple(TRUE, status), "success")
                               ELSE Finish(c, Tuple(FALSE, status), "persistentFailure")
                            /\ UNCHANGED <<elapsed, sleep_time>>
                       ELSE /\ elapsed' = [elapsed EXCEPT ![c] = @ + poll_interval[c]]
                            /\ sleep_time' = [sleep_time EXCEPT ![c] = poll_interval[c]]
                            /\ UNCHANGED <<pc, ret, exit>>
    /\ UNCHANGED <<op, timeout, poll_interval, check_count>>

\* wait_for_completion resetting the indexer when it times out
WaitForCompletionIterReset(c) ==
    /\ \E ok \in BOOLEAN : wait_for_completion(c, ok, latest)
    /\ latest' = IF wait_timed_out(elapsed[c], timeout[c]) THEN NoExec ELSE latest
    /\ UNCHANGED <<pending, runs, script, chunkVars, idVars, indexVars, validateVars>>

WaitForCompletionIter(c) ==
    /\ \E ok \in BOOLEAN : wait_for_completion(c, ok, latest)
    /\ UNCHANGED <<remoteVars, script, chunkVars, idVars, indexVars, validateVars>>

(***************************************************************************)
(* IndexerPipelineRunner                                                   *)
(***************************************************************************)
\* a sleep of no length after a status check
no_backoff(cc) == 0

\* sleep after the check_count-th status check that saw no terminal result
backoff(cc) == Min(BackoffBase + (cc * 2), BackoffCap)

\* run_indexer: trigger, then return at once or enter _monitor_execution
RunIndexer(c, wait, t) ==
    /\ pc[c] = "idle"
    /\ \E accepted \in BOOLEAN :
          /\ trigger_run(c, accepted)
          /\ IF ~accepted
             THEN /\ Finish(c, Raised, "raised")
                  /\ op' = [op EXCEPT ![c] = "run_indexer"]
                  /\ UNCHANGED <<timeout, poll_interval>>
             ELSE IF ~wait
             THEN /\ Finish(c, Bool(TRUE), "no_wait")
                  /\ op' = [op EXCEPT ![c] = "run_indexer"]
                  /\ UNCHANGED <<timeout, poll_interval>>
             ELSE /\ Enter(c, "run_indexer", "monitor_execution", t, 0)
                  /\ UNCHANGED <<ret, exit>>
    /\ UNCHANGED <<script, elapsed, check_count, sleep_time, last_status, read, chunkVars, idVars, indexVars, validateVars>>

\* the loop condition: time.time() - start_time < timeout
monitor_in_time(e, t) == e < t

\* a success result counted as success whatever failed
monitor_success_any(ex) == TRUE

\* return status.last_result.failed_item_count == 0
monitor_success(ex) == ex.items_failed = 0

\* the result states _monitor_execution reports as failure
monitor_failure_states == {"transientFailure", "persistentFailure"}

\* one iteration of the while loop of _monitor_execution; (ok, ex) is the
\* answer of the service to get_indexer_status
monitor_execution(c, ok, ex) ==
    /\ pc[c] = "monitor_execution"
    /\ IF ~monitor_in_time(elapsed[c], timeout[c])
       THEN /\ Finish(c, Bool(FALSE), "timeout")
            /\ UNCHANGED <<elapsed, check_count, sleep_time, read, lastCall>>
       ELSE /\ check_count' = [check_count EXCEPT ![c] = @ + 1]
            /\ lastCall' = [lastCall EXCEPT ![c] = "get_indexer_status"]
            /\ read' = [read EXCEPT ![c] = Answer(ok, ex)]
            /\ IF ~ok
               THEN /\ elapsed' = [elapsed EXCEPT ![c] = @ + ErrorSleep]
                    /\ sleep_time' = [sleep_time EXCEPT ![c] = ErrorSleep]
                    /\ UNCHANGED <<pc, ret, exit>>
               ELSE IF ex.status = "success"
               THEN /\ Finish(c, Bool(monitor_success(ex)), "success")
                    /\ UNCHANGED <<elapsed, sleep_time>>
               ELSE IF ex.status \in monitor_failure_states
               THEN /\ Finish(c, Bool(FALSE), ex.status)
                    /\ UNCHANGED <<elapsed, sleep_time>>
               ELSE /\ elapsed' = [elapsed EXCEPT ![c] = @ + backoff(check_count'[c])]
                    /\ sleep_time' = [sleep_time EXCEPT ![c] = backoff(check_count'[c])]
                    /\ UNCHANGED <<pc, ret, exit>>
    /\ UNCHANGED <<op, timeout, poll_interval, last_status>>

MonitorExecutionIter(c) ==
    /\ \E ok \in BOOLEAN : monitor_execution(c, ok, latest)
    /\ UNCHANGED <<remoteVars, script, chunkVars, idVars, indexVars, validateVars>>

\* the call returns to its caller; the caller is free for the next call
Return(c) ==
    /\ pc[c] = "done"
    /\ pc' = [pc EXCEPT ![c] = "idle"]
    /\ op' = [op EXCEPT ![c] = "none"]
    /\ timeout' = [timeout EXCEPT ![c] = 0]
    /\ poll_interval' = [poll_interval EXCEPT ![c] = 0]
    /\ elapsed' = [elapsed EXCEPT ![c] = 0]
    /\ check_count' = [check_count EXCEPT ![c] = 0]
    /\ sleep_time' = [sleep_time EXCEPT ![c] = 0]
    /\ last_status' = [last_status EXCEPT ![c] = PyNone]
    /\ read' = [read EXCEPT ![c] = NoRead]
    /\ lastCall' = [lastCall EXCEPT ![c] = "none"]
    /\ ret' = [ret EXCEPT ![c] = NoRet]
    /\ exit' = [exit EXCEPT ![c] = "none"]
    /\ UNCHANGED <<remoteVars, script, chunkVars, idVars, indexVars, validateVars>>

(***************************************************************************)
(* Specification of the runner against the remote state machine            *)
(***************************************************************************)
CallerInit ==
    /\ pc = [c \in Callers |-> "idle"]
    /\ op = [c \in Callers |-> "none"]
    /\ timeout = [c \in Callers |-> 0]
    /\ poll_interval = [c \in Callers |-> 0]
    /\ elapsed = [c \in Callers |-> 0]
    /\ check_count = [c \in Callers |-> 0]
    /\ sleep_time = [c \in Callers |-> 0]
    /\ last_status = [c \in Callers |-> PyNone]
    /\ read = [c \in Callers |-> NoRead]
    /\ lastCall = [c \in Callers |-> "none"]
    /\ ret = [c \in Callers |-> NoRet]
    /\ exit = [c \in Callers |-> "none"]

ChunkIdle ==
    /\ chunk_size = 0
    /\ chunk_overlap = 0
    /\ pages = <<>>
    /\ cpc = "idle"
    /\ page_idx = 0
    /\ start = 0
    /\ chunks = <<>>
    /\ document_id = <<>>

IdIdle ==
    /\ id_args = <<>>
    /\ id_vals = <<>>

IndexIdle ==
    /\ pdf_names = <<>>
    /\ doc_pos = 0
    /\ ipc = "idle"
    /\ batch_pos = 0
    /\ batch = <<>>
    /\ texts = <<>>
    /\ embeddings = <<>>
    /\ index = <<>>
    /\ attempted = <<>>
    /\ upload_results = <<>>
    /\ result = PyNone
    /\ run = 0
    /\ clean = TRUE
    /\ response = PyNone

ValidateIdle ==
    /\ uploaded_docs = <<>>
    /\ indexed_docs = <<>>
    /\ report = PyNone
    /\ vpc = "idle"

\* no indexer run and no caller: the state of the runner in the other components
RunnerIdle ==
    /\ latest = NoExec
    /\ pending = FALSE
    /\ runs = 0
    /\ script = NoScript
    /\ CallerInit

Init ==
    /\ latest = NoExec
    /\ pending = FALSE
    /\ runs = 0
    /\ script = NoScript
    /\ CallerInit
    /\ ChunkIdle
    /\ IdIdle
    /\ IndexIdle
    /\ ValidateIdle

Next ==
    \/ RemoteAppear
    \/ RemoteRunning
    \/ RemoteFinish
    \/ \E c \in {"c1"} : TriggerRun(c)
    \/ \E c \in {"c1"} : ResetIndexer(c)
    \/ \E c \in {"c1"} : \E t \in Timeouts : \E i \in PollIntervals : RunAndWait(c, t, i)
    \/ \E c \in {"c1"} : RunAndWaitStart(c)
    \/ \E c \in {"c1"} : \E t \in Timeouts : \E i \in PollIntervals : WaitForCompletion(c, t, i)
    \/ \E c \in {"c1"} : WaitForCompletionIter(c)
    \/ \E c \in {"c1"} : \E w \in BOOLEAN : \E t \in Timeouts : RunIndexer(c, w, t)
    \/ \E c \in {"c1"} : MonitorExecutionIter(c)
    \/ \E c \in {"c1"} : Return(c)

Spec == Init /\ [][Next]_vars

(***************************************************************************)
(* Two callers working on the same indexer name                            *)
(***************************************************************************)
ShortTimeouts == {MaxTimeout - 18}

NextConc ==
    \/ RemoteAppear
    \/ RemoteRunning
    \/ RemoteFinish
    \/ \E c \in Callers : \E t \in ShortTimeouts : \E i \in PollIntervals : RunAndWait(c, t, i)
    \/ \E c \in Callers : RunAndWaitStart(c)
    \/ \E c \in Callers : WaitForCompletionIter(c)
    \/ \E c \in Callers : \E t \in ShortTimeouts : RunIndexer(c, TRUE, t)
    \/ \E c \in Callers : MonitorExecutionIter(c)
    \/ \E c \in Callers : Return(c)

SpecConc == Init /\ [][NextConc]_vars

(***************************************************************************)
(* The runner against a scripted remote service: the k-th status read gets *)
(* the k-th answer of the script, the last answer repeats                  *)
(***************************************************************************)
Exec(s, f, n) == [status |-> s, items_failed |-> f, errors |-> ErrorRecords(n), id |-> 1]

ScriptExecs ==
    {NoExec, Exec("queued", 0, 0), Exec("running", 0, 0), Exec("success", 0, 0),
     Exec("success", MaxFailed, 1), Exec("transientFailure", 0, 1),
     Exec("persistentFailure", MaxFailed, MaxErrors)}

Answers == {[ok |-> FALSE, ex |-> NoExec]} \cup {[ok |-> TRUE, ex |-> e] : e \in ScriptExecs}

Scripts == UNION {[1..n -> Answers] : n \in 1..MaxScript}

ScriptAnswer == script.answers[Min(script.pos + 1, Len(script.answers))]

ScriptAdvance(polled) ==
    script' = [script EXCEPT !.pos = IF polled THEN Min(@ + 1, Len(script.answers)) ELSE @]

ScriptedWaitForCompletionIter(c) ==
    /\ wait_for_completion(c, ScriptAnswer.ok, ScriptAnswer.ex)
    /\ ScriptAdvance(~wait_timed_out(elapsed[c], timeout[c]))
    /\ UNCHANGED <<remoteVars, chunkVars, idVars, indexVars, validateVars>>

ScriptedMonitorExecutionIter(c) ==
    /\ monitor_execution(c, ScriptAnswer.ok, ScriptAnswer.ex)
    /\ ScriptAdvance(monitor_in_time(elapsed[c], timeout[c]))
    /\ UNCHANGED <<remoteVars, chunkVars, idVars, indexVars, validateVars>>

InitScript ==
    /\ latest = NoExec
    /\ pending = FALSE
    /\ runs = 0
    /\ script \in [answers : Scripts, pos : {0}]
    /\ CallerInit
    /\ ChunkIdle
    /\ IdIdle
    /\ IndexIdle
    /\ ValidateIdle

NextScript ==
    \/ \E t \in Timeouts : \E i \in PollIntervals : WaitForCompletion("c1", t, i)
    \/ ScriptedWaitForCompletionIter("c1")
    \/ \E t \in Timeouts : RunIndexer("c1", TRUE, t)
    \/ ScriptedMonitorExecutionIter("c1")

\* a blocked time.sleep returns and the loop goes on: the caller keeps stepping
SpecScript == InitScript /\ [][NextScript]_vars /\ WF_vars(NextScript)

(***************************************************************************)
(* DocumentIndexer.chunk_text                                              *)
(***************************************************************************)
Chars == {"a", " "}
Texts == UNION {[1..n -> Chars] : n \in 0..MaxLen}
\* document ids (blob names); "#" and "_" are the separators chunk_text puts
\* between document id, page number and offset
DocumentIds == {<<"d">>, <<"d", "#", "1">>, <<"d", "#", "1", "_", "0">>}

PageLists ==
    {<<[page_number |-> 1, text |-> t]>> : t \in Texts}
    \cup {<<[page_number |-> 1, text |-> t], [page_number |-> 2, text |-> u]>> :
             t \in Texts, u \in Texts}

DigitChars == <<"0", "1", "2", "3", "4", "5", "6", "7", "8", "9">>

RECURSIVE str(_)
str(n) == IF n < 10 THEN <<DigitChars[n + 1]>>
          ELSE str(n \div 10) \o <<DigitChars[(n % 10) + 1]>>

\* page number and offset written one after the other, without the "_"
chunk_position_unseparated(page_number, st) == str(page_number) \o str(st)

\* f"{page_number}_{start}"
chunk_position(page_number, st) == str(page_number) \o <<"_">> \o str(st)

\* f"{document_id}#{chunk_position}"
chunk_key(doc_id, page_number, st) == doc_id \o <<"#">> \o chunk_position(page_number, st)

\* .encode(): the UTF-8 byte of each character an id is made of
Ord(ch) ==
    CASE ch = " " -> 32
      [] ch = "#" -> 35
      [] ch = "." -> 46
      [] ch = "_" -> 95
      [] ch = "a" -> 97
      [] ch = "d" -> 100
      [] ch = "f" -> 102
      [] ch = "p" -> 112
      [] OTHER -> 48 + (CHOOSE n \in 0..9 : DigitChars[n + 1] = ch)

encode(t) == [i \in 1..Len(t) |-> Ord(t[i])]

\* the URL-safe base64 alphabet
UrlSafeAlphabet ==
    <<"A", "B", "C", "D", "E", "F", "G", "H", "I", "J", "K", "L", "M",
      "N", "O", "P", "Q", "R", "S", "T", "U", "V", "W", "X", "Y", "Z",
      "a", "b", "c", "d", "e", "f", "g", "h", "i", "j", "k", "l", "m",
      "n", "o", "p", "q", "r", "s", "t", "u", "v", "w", "x", "y", "z",
      "0", "1", "2", "3", "4", "5", "6", "7", "8", "9", "-", "_">>

Sextet(n) == UrlSafeAlphabet[n + 1]

\* base64.urlsafe_b64encode(bytes).decode('utf-8'): 3 bytes become 4
\* characters, the last group is padded with "="
RECURSIVE urlsafe_b64encode(_)
urlsafe_b64encode(b) ==
    IF Len(b) = 0 THEN <<>>
    ELSE IF Len(b) = 1
    THEN <<Sextet(b[1] \div 4), Sextet((b[1] % 4) * 16), "=", "=">>
    ELSE IF Len(b) = 2
    THEN <<Sextet(b[1] \div 4), Sextet(((b[1] % 4) * 16) + (b[2] \div 16)),
           Sextet((b[2] % 16) * 4), "=">>
    ELSE <<Sextet(b[1] \div 4), Sextet(((b[1] % 4) * 16) + (b[2] \div 16)),
           Sextet(((b[2] % 16) * 4) + (b[3] \div 64)), Sextet(b[3] % 64)>>
         \o urlsafe_b64encode(SubSeq(b, 4, Len(b)))

\* chunk_id = base64.urlsafe_b64encode(f"{document_id}#{chunk_position}".encode()).decode('utf-8')
chunk_id(doc_id, page_number, st) ==
    urlsafe_b64encode(encode(chunk_key(doc_id, page_number, st)))

\* not chunk_text.strip(): empty or whitespace only
IsBlank(t) == \A i \in 1..Len(t) : t[i] = " "

\* text[start:end]
Slice(t, s, e) == SubSeq(t, s + 1, e)

\* a window that moves on by its whole size, without overlap
chunk_step_no_overlap == chunk_size

\* the step of the window: start += chunk_size - chunk_overlap
chunk_step == chunk_size - chunk_overlap

\* no valid configuration produces more chunks than this
ChunkCap == (2 * MaxLen) + 1

\* one iteration of the inner while loop
ChunkStep ==
    /\ cpc = "chunk_text"
    /\ page_idx <= Len(pages)
    /\ start < Len(pages[page_idx].text)
    /\ Len(chunks) < ChunkCap
    /\ LET text == pages[page_idx].text
           end == Min(start + chunk_size, Len(text))
           content == Slice(text, start, end)
       IN  chunks' = IF ~IsBlank(content)
                     THEN Append(chunks,
                                 [chunk_id |-> chunk_id(document_id, pages[page_idx].page_number, start),
                                  content |-> content,
                                  document_id |-> document_id,
                                  metadata_storage_name |-> document_id,
                                  state |-> PyNone,
                                  page_number |-> pages[page_idx].page_number,
                                  start |-> start])
                     ELSE chunks
    /\ start' = start + chunk_step
    /\ UNCHANGED <<chunk_size, chunk_overlap, pages, cpc, page_idx, document_id>>
    /\ UNCHANGED <<runnerVars, idVars, indexVars, validateVars>>

\* the inner loop ends: next page_info of the for loop
ChunkNextPage ==
    /\ cpc = "chunk_text"
    /\ page_idx <= Len(pages)
    /\ ~(start < Len(pages[page_idx].text))
    /\ page_idx' = page_idx + 1
    /\ start' = 0
    /\ UNCHANGED <<chunk_size, chunk_overlap, pages, cpc, chunks, document_id>>
    /\ UNCHANGED <<runnerVars, idVars, indexVars, validateVars>>

\* return chunks
ChunkReturn ==
    /\ cpc = "chunk_text"
    /\ page_idx > Len(pages)
    /\ cpc' = "done"
    /\ UNCHANGED <<chunk_size, chunk_overlap, pages, page_idx, start, chunks, document_id>>
    /\ UNCHANGED <<runnerVars, idVars, indexVars, validateVars>>

InitChunk ==
    /\ RunnerIdle
    /\ IdIdle
    /\ IndexIdle
    /\ ValidateIdle
    /\ document_id \in DocumentIds
    /\ chunk_size \in 1..MaxChunkSize
    /\ chunk_overlap \in 0..chunk_size
    /\ pages \in PageLists
    /\ cpc = "chunk_text"
    /\ page_idx = 1
    /\ start = 0
    /\ chunks = <<>>

NextChunk == ChunkStep \/ ChunkNextPage \/ ChunkReturn

SpecChunk == InitChunk /\ [][NextChunk]_vars

(***************************************************************************)
(* The chunk id as a function of (document_id, page_number, start)         *)
(***************************************************************************)
\* page numbers start at 1, offsets at 0
Triples == DocumentIds \X (1..MaxOffset) \X (0..MaxOffset)

\* the ids chunk_text gives to two chunks
ComputeChunkIds ==
    /\ id_vals = <<>>
    /\ id_vals' = <<chunk_id(id_args[1][1], id_args[1][2], id_args[1][3]),
                    chunk_id(id_args[2][1], id_args[2][2], id_args[2][3])>>
    /\ UNCHANGED <<id_args, runnerVars, chunkVars, indexVars, validateVars>>

InitChunkId ==
    /\ RunnerIdle
    /\ ChunkIdle
    /\ IndexIdle
    /\ ValidateIdle
    /\ id_args \in Triples \X Triples
    /\ id_vals = <<>>

NextChunkId == ComputeChunkIds

SpecChunkId == InitChunkId /\ [][NextChunkId]_vars

(***************************************************************************)
(* Properties                                                              *)
(***************************************************************************)
RunnerWaitOps == {"run_and_wait", "wait_for_completion"}
PipelineWaitOps == {"run_indexer"}
WaitOps == RunnerWaitOps \cup PipelineWaitOps
WaitPcs == {"wait_for_completion", "monitor_execution"}

\* a status dictionary whose last result is a success without failed items
CleanSuccess(status) ==
    /\ status.tag = "dict"
    /\ status.has_last_result
    /\ status.last_result.status = "success"
    /\ status.last_result.items_failed = 0

\* C1: wait_for_completion returns success = TRUE only for a last result that is
\* success with items_failed = 0; a success with items_failed > 0 is returned
\* as (FALSE, status).
C1_PartialSuccessIsNotSuccess ==
    \A c \in Callers :
        (pc[c] = "done" /\ op[c] \in RunnerWaitOps /\ ret[c].tag = "tuple")
            => /\ ret[c].success => CleanSuccess(ret[c].status)
               /\ (ReadStatus(read[c]) = "success" /\ read[c].ex.items_failed > 0)
                      => ret[c] = Tuple(FALSE, get_status(TRUE, read[c].ex))

\* the scripted service of the happy path: queued, running, success without failures
HappyScript ==
    <<[ok |-> TRUE, ex |-> Exec("queued", 0, 0)],
      [ok |-> TRUE, ex |-> Exec("running", 0, 0)],
      [ok |-> TRUE, ex |-> Exec("success", 0, 0)]>>

HappyStart ==
    /\ pc["c1"] = "wait_for_completion"
    /\ script.answers = HappyScript
    /\ script.pos = 0
    /\ timeout["c1"] > 2 * poll_interval["c1"]

HappyEnd ==
    /\ pc["c1"] = "done"
    /\ exit["c1"] = "success"
    /\ ret["c1"] = Tuple(TRUE, get_status(TRUE, Exec("success", 0, 0)))

\* C2: when the status reads are queued, running, success with items_failed = 0
\* and the deadline is longer than the polls take, wait_for_completion
\* eventually returns (TRUE, the success status), not through the timeout branch.
C2_HappyPathReturnsSuccess == [](HappyStart => <>HappyEnd)

C2_Witness ==
    /\ script.answers = HappyScript
    /\ script.pos = 3
    /\ op["c1"] = "wait_for_completion"
    /\ elapsed["c1"] = 2 * poll_interval["c1"]
    /\ HappyEnd

\* C3: for each wait operation the value returned on timeout differs from the
\* value returned when the run ended in persistentFailure.
C3_TimeoutDistinctFromPersistentFailure ==
    \A c \in Callers : \A d \in Callers :
        (/\ pc[c] = "done" /\ pc[d] = "done"
         /\ \/ (op[c] \in RunnerWaitOps /\ op[d] \in RunnerWaitOps)
            \/ (op[c] \in PipelineWaitOps /\ op[d] \in PipelineWaitOps)
         /\ exit[c] = "timeout"
         /\ exit[d] = "persistentFailure")
            => ret[c] # ret[d]

\* C4: a wait whose latest status read saw transientFailure has not returned,
\* unless its deadline ran out afterwards: transientFailure does not end the wait.
C4_TransientFailureNonTerminal ==
    \A c \in Callers :
        (pc[c] = "done" /\ op[c] \in WaitOps /\ ReadStatus(read[c]) = "transientFailure")
            => exit[c] = "timeout"

\* C5: a poll of wait_for_completion that sees persistentFailure returns
\* (FALSE, status) at that poll, and status.last_result.errors has one entry per
\* ErrorRecord of the execution, in order, none dropped.
C5_PersistentFailurePropagatesErrors ==
    \A c \in Callers :
        (op[c] \in RunnerWaitOps /\ ReadStatus(read[c]) = "persistentFailure")
            => /\ pc[c] = "done"
               /\ ret[c].tag = "tuple"
               /\ ret[c].success = FALSE
               /\ ret[c].status.tag = "dict"
               /\ ret[c].status.has_last_result
               /\ ret[c].status.last_result.status = "persistentFailure"
               /\ Len(ret[c].status.last_result.errors) = Len(read[c].ex.errors)
               /\ \A i \in 1..Len(read[c].ex.errors) :
                     /\ ret[c].status.last_result.errors[i].key = read[c].ex.errors[i].key
                     /\ ret[c].status.last_result.errors[i].error_message
                            = read[c].ex.errors[i].error_message

C5_Witness ==
    \E c \in Callers :
        /\ pc[c] = "done"
        /\ op[c] = "run_and_wait"
        /\ exit[c] = "persistentFailure"
        /\ Len(read[c].ex.errors) = MaxErrors
        /\ Len(ret[c].status.last_result.errors) = MaxErrors

\* the sleeps the backoff is said to follow
ClaimedBackoff == <<2, 4, 6, 8, 10>>

\* C6: in _monitor_execution the sleep after the k-th status check is
\* 2, 4, 6, 8 s for k = 1..4 and 10 s from the fifth on, never more than 10 s.
C6_BackoffSequence ==
    \A c \in Callers :
        (pc[c] = "monitor_execution" /\ check_count[c] >= 1 /\ ReadStatus(read[c]) # "raised")
            => /\ sleep_time[c] <= 10
               /\ sleep_time[c] = ClaimedBackoff[Min(check_count[c], 5)]

\* C7: a wait whose latest status read failed has not returned, unless its
\* deadline ran out afterwards: a failed read is retried, not surfaced.
C7_StatusReadFailureRetried ==
    \A c \in Callers :
        (pc[c] = "done" /\ op[c] \in WaitOps /\ ReadStatus(read[c]) = "raised")
            => exit[c] = "timeout"

\* the step is taken by caller c
CallerStepped(c) ==
    <<pc'[c], elapsed'[c], check_count'[c], read'[c], lastCall'[c], last_status'[c], ret'[c]>>
        # <<pc[c], elapsed[c], check_count[c], read[c], lastCall[c], last_status[c], ret[c]>>

\* C8: every step a caller takes inside wait_for_completion or
\* _monitor_execution leaves the remote run as it is and issues no remote
\* operation other than a status read.
C8_WaitIsObserverOnly ==
    [][\A c \in Callers :
          (pc[c] \in WaitPcs /\ CallerStepped(c))
              => /\ latest' = latest
                 /\ pending' = pending
                 /\ runs' = runs
                 /\ lastCall'[c] \in {lastCall[c], "get_indexer_status"}]_vars

C8_Witness ==
    \E c \in Callers :
        /\ pc[c] = "done"
        /\ op[c] = "run_and_wait"
        /\ exit[c] = "timeout"
        /\ latest.status = "running"

\* caller c is between its accepted trigger and its return
Active(c) ==
    /\ op[c] \in {"run_and_wait", "run_indexer"}
    /\ pc[c] \in {"run_and_wait", "wait_for_completion", "monitor_execution"}

\* C9: two callers on the same indexer name are never both between their
\* trigger and their return.
C9_OneActiveSequencePerIndexer ==
    \A c \in Callers : \A d \in Callers : (c # d) => ~(Active(c) /\ Active(d))

CeilDiv(a, b) == (a + b - 1) \div b

\* chunks of the page with number n
PageChunks(n) == SelectSeq(chunks, LAMBDA ch : ch.page_number = n)

\* the windows chunk_text cuts out of a text of the page
NoBlankWindow(text) ==
    \A k \in 0..Len(text) :
        (k * chunk_step < Len(text))
            => ~IsBlank(Slice(text, k * chunk_step, Min((k * chunk_step) + chunk_size, Len(text))))

\* C10: with chunk_overlap < chunk_size, a page text of length L without a
\* whitespace-only window yields ceil((L - overlap) / (size - overlap)) chunks,
\* and exactly 1 chunk when L <= chunk_size.
C10_ChunkCount ==
    (cpc = "done" /\ chunk_overlap < chunk_size)
        => \A p \in 1..Len(pages) :
              (Len(pages[p].text) >= 1 /\ NoBlankWindow(pages[p].text))
                  => Len(PageChunks(pages[p].page_number))
                        = IF Len(pages[p].text) <= chunk_size THEN 1
                          ELSE CeilDiv(Len(pages[p].text) - chunk_overlap, chunk_step)

(***************************************************************************)
(* Properties of the chunks                                                *)
(***************************************************************************)
\* the last n and the first n characters of a text
Suffix(t, n) == SubSeq(t, (Len(t) - n) + 1, Len(t))
Prefix(t, n) == SubSeq(t, 1, n)

\* the text of the page with number n (page i of a document has number i)
PageText(n) == pages[n].text

\* chunks i and i + 1 of the list come from the same page
SamePage(i) == chunks[i].page_number = chunks[i + 1].page_number

\* chunk i is the last window of its page
FinalChunk(i) ==
    chunks[i].start + (chunk_size - chunk_overlap) >= Len(PageText(chunks[i].page_number))

ContentWithinSize == \A i \in 1..Len(chunks) : Len(chunks[i].content) <= chunk_size

\* the number of characters chunk i shares with the chunk after it
Shared(i) ==
    IF FinalChunk(i + 1) THEN Min(chunk_overlap, Len(chunks[i + 1].content))
    ELSE chunk_overlap

Window(text, st) == Slice(text, st, Min(st + chunk_size, Len(text)))

\* the windows between chunk i and the chunk k steps after it were all dropped
DroppedBetween(i, k) ==
    \A j \in 1..(k - 1) :
        IsBlank(Window(PageText(chunks[i].page_number),
                       chunks[i].start + (j * (chunk_size - chunk_overlap))))

C12_ChunkingMakesProgress ==
    [][(cpc = "chunk_text" /\ cpc' = "chunk_text" /\ page_idx' = page_idx)
          => (chunk_overlap < chunk_size /\ start' > start)]_vars

\* C13: the chunk id is a function of (document_id, page_number, start) alone
\* and is collision-free: two triples get the same id exactly when they are the
\* same triple.
C13_ChunkIdInjective ==
    (id_vals # <<>>) => ((id_vals[1] = id_vals[2]) <=> (id_args[1] = id_args[2]))

\* ids were computed for page 1 at offset 11 and page 11 at offset 1 of one document
C13_Witness ==
    /\ id_vals # <<>>
    /\ id_args[1] = <<<<"d">>, 1, 11>>
    /\ id_args[2] = <<<<"d">>, 11, 1>>
    /\ id_vals[1] # id_vals[2]

(***************************************************************************)
(* DocumentIndexer: embedding, upload and the loop over the documents      *)
(***************************************************************************)
PdfSuffix == <<".", "p", "d", "f">>

\* the blobs of the container whose names end in .pdf
PdfNames == {d \o PdfSuffix : d \in DocumentIds}

\* extract_text_from_pdf: the pages with text of each blob (the third has none);
\* a.pdf is a manual of two pages with 1200 and 300 characters; aa.pdf is
\* replaced by a shorter version after the first run
Container(name) ==
    IF name = <<"d">> \o PdfSuffix
    THEN <<[page_number |-> 1, text |-> <<"a", "a", "a">>]>>
    ELSE IF name = <<"d", "#", "1">> \o PdfSuffix
    THEN <<[page_number |-> 1, text |-> <<"a">>], [page_number |-> 2, text |-> <<" ", "a">>]>>
    ELSE IF name = <<"a", "a">> \o PdfSuffix
    THEN IF run <= 1 THEN <<[page_number |-> 1, text |-> <<"a", "a", "a">>]>>
         ELSE <<[page_number |-> 1, text |-> <<"a">>]>>
    ELSE IF name = <<"a">> \o PdfSuffix
    THEN <<[page_number |-> 1, text |-> [i \in 1..1200 |-> "a"]],
           [page_number |-> 2, text |-> [i \in 1..300 |-> "a"]]>>
    ELSE <<>>

\* list_pdfs: the listings of a container, without repetition
PdfLists ==
    {<<>>} \cup {<<a>> : a \in PdfNames}
           \cup {l \in PdfNames \X PdfNames : l[1] # l[2]}

\* a Python list
List(items) == [tag |-> "list", items |-> items]

\* the vector the embedding deployment computes for a text
Embedding(text) == [embedding |-> text]

\* what embeddings.create can answer to a request: an error, one item per
\* input, or a data list that is one item short
ServiceResponses(t) ==
    {[ok |-> FALSE, data |-> <<>>]}
        \cup {[ok |-> TRUE, data |-> [k \in 1..n |-> Embedding(t[k])]] :
                 n \in {m \in {Len(t) - 1, Len(t)} : m >= 0}}

\* generate_embeddings: the list of item.embedding; len(embeddings[0]) raises
\* IndexError on an empty list
generate_embeddings(t, resp) ==
    IF ~resp.ok THEN Raised
    ELSE IF Len(resp.data) = 0 THEN Raised
    ELSE List(resp.data)

HasVector(chunk) == "chunk_vector" \in DOMAIN chunk

\* for chunk, embedding in zip(batch, embeddings): chunk['chunk_vector'] = embedding
zip_vectors(b, e) ==
    [k \in 1..Len(b) |->
        IF k <= Len(e) THEN ("chunk_vector" :> e[k]) @@ b[k] ELSE b[k]]

\* a stored document after writing record over it, the fields of the stored
\* one that the record does not have being lost
upload_documents(stored, record) == record

\* merge_or_upload: the fields of the record replace those of the stored document
merge_or_upload(stored, record) == record @@ stored

\* an upload after which the index holds the accepted documents of b only
replace_documents(ix, b, flags) ==
    LET accepted == {k \in 1..Len(b) : flags[k]}
        keys == {b[k].chunk_id : k \in accepted}
    IN  [key \in keys |-> b[CHOOSE k \in accepted : b[k].chunk_id = key]]

\* search_client.merge_or_upload_documents(documents=b), flags[k] telling
\* whether the service accepted b[k]
merge_or_upload_documents(ix, b, flags) ==
    LET accepted == {k \in 1..Len(b) : flags[k]}
        keys == {b[k].chunk_id : k \in accepted}
        last(key) == CHOOSE k \in accepted :
                        /\ b[k].chunk_id = key
                        /\ \A j \in accepted : b[j].chunk_id = key => j <= k
    IN  [key \in (DOMAIN ix) \cup keys |->
            IF key \notin keys THEN ix[key]
            ELSE IF key \in DOMAIN ix THEN merge_or_upload(ix[key], b[last(key)])
            ELSE b[last(key)]]

\* the for loop of index_all_documents after index_document returned or raised
next_document_abort(pos, raised) == IF raised THEN Len(pdf_names) + 1 ELSE pos + 1
next_document(pos, raised) == pos + 1

\* a failure or a short answer during the first run
Dirty == clean' = (IF run = 1 THEN FALSE ELSE clean)

\* index_document returns r or raises; the loop of index_all_documents goes on
FinishDocument(r, raised) ==
    /\ result' = r
    /\ doc_pos' = next_document(doc_pos, raised)
    /\ ipc' = IF next_document(doc_pos, raised) > Len(pdf_names) THEN "done"
              ELSE "index_document"

\* index_all_documents: list_pdfs, then the loop over pdf_names
IndexAllDocuments ==
    /\ ipc \in {"idle", "done"}
    /\ run < MaxIndexRuns
    /\ run' = run + 1
    /\ attempted' = <<>>
    /\ upload_results' = <<>>
    /\ result' = NoRet
    /\ doc_pos' = 1
    /\ ipc' = IF pdf_names = <<>> THEN "done" ELSE "index_document"
    /\ UNCHANGED <<pdf_names, batch_pos, batch, texts, embeddings, response, index, clean>>
    /\ UNCHANGED <<runnerVars, chunkVars, idVars, validateVars>>

\* index_document(pdf_name) up to the call of chunk_text
IndexDocument ==
    /\ ipc = "index_document"
    /\ attempted' = Append(attempted, pdf_names[doc_pos])
    /\ upload_results' = <<>>
    /\ \E extracted \in BOOLEAN :
          IF ~extracted
          THEN /\ FinishDocument(Raised, TRUE)
               /\ Dirty
               /\ UNCHANGED chunkVars
          ELSE IF Container(pdf_names[doc_pos]) = <<>>
          THEN /\ FinishDocument(PyNone, FALSE)
               /\ UNCHANGED <<clean, chunkVars>>
          ELSE /\ ipc' = "chunk_text"
               /\ document_id' = pdf_names[doc_pos]
               /\ pages' = Container(pdf_names[doc_pos])
               /\ cpc' = "chunk_text"
               /\ page_idx' = 1
               /\ start' = 0
               /\ chunks' = <<>>
               /\ UNCHANGED <<doc_pos, result, clean, chunk_size, chunk_overlap>>
    /\ UNCHANGED <<pdf_names, batch_pos, batch, texts, embeddings, response, index, run>>
    /\ UNCHANGED <<runnerVars, idVars, validateVars>>

\* chunk_text returned: if not chunks: return, else the batch loop starts
StartBatches ==
    /\ ipc = "chunk_text"
    /\ cpc = "done"
    /\ cpc' = "idle"
    /\ IF chunks = <<>>
       THEN /\ FinishDocument(PyNone, FALSE)
            /\ UNCHANGED batch_pos
       ELSE /\ ipc' = "embed_batch"
            /\ batch_pos' = 0
            /\ UNCHANGED <<doc_pos, result>>
    /\ UNCHANGED <<pdf_names, batch, texts, embeddings, response, index, attempted,
                   upload_results, run, clean>>
    /\ UNCHANGED <<chunk_size, chunk_overlap, pages, page_idx, start, chunks, document_id>>
    /\ UNCHANGED <<runnerVars, idVars, validateVars>>

\* batch = chunks[i:i + batch_size]; embeddings = generate_embeddings(texts);
\* the vectors are added to the chunks of the batch
EmbedBatch ==
    /\ ipc = "embed_batch"
    /\ LET b == SubSeq(chunks, batch_pos + 1, Min(batch_pos + batch_size, Len(chunks)))
           t == [k \in 1..Len(b) |-> b[k].content]
       IN  /\ texts' = t
           /\ \E resp \in ServiceResponses(t) :
                 /\ response' = resp
                 /\ embeddings' = generate_embeddings(t, resp)
                 /\ IF generate_embeddings(t, resp) = Raised
                    THEN /\ FinishDocument(Raised, TRUE)
                         /\ Dirty
                         /\ batch' = b
                         /\ UNCHANGED chunks
                    ELSE /\ batch' = zip_vectors(b, resp.data)
                         /\ chunks' = [k \in 1..Len(chunks) |->
                                          IF k > batch_pos /\ k <= batch_pos + Len(b)
                                          THEN zip_vectors(b, resp.data)[k - batch_pos]
                                          ELSE chunks[k]]
                         /\ ipc' = "upload"
                         /\ IF Len(resp.data) < Len(b) THEN Dirty ELSE UNCHANGED clean
                         /\ UNCHANGED <<doc_pos, result>>
    /\ UNCHANGED <<pdf_names, batch_pos, index, attempted, upload_results, run>>
    /\ UNCHANGED <<chunk_size, chunk_overlap, pages, cpc, page_idx, start, document_id>>
    /\ UNCHANGED <<runnerVars, idVars, validateVars>>

\* upload_to_search(batch), then the next batch or the end of index_document
UploadBatch ==
    /\ ipc = "upload"
    /\ \/ /\ FinishDocument(Raised, TRUE)
          /\ Dirty
          /\ UNCHANGED <<index, upload_results, batch_pos>>
       \/ \E flags \in [1..Len(batch) -> BOOLEAN] :
             /\ index' = merge_or_upload_documents(index, batch, flags)
             /\ upload_results' = upload_results
                    \o [k \in 1..Len(batch) |->
                           [key |-> batch[k].chunk_id, succeeded |-> flags[k]]]
             /\ IF \E k \in 1..Len(batch) : ~flags[k] THEN Dirty ELSE UNCHANGED clean
             /\ batch_pos' = batch_pos + batch_size
             /\ IF batch_pos + batch_size < Len(chunks)
                THEN /\ ipc' = "embed_batch"
                     /\ UNCHANGED <<doc_pos, result>>
                ELSE FinishDocument(PyNone, FALSE)
    /\ UNCHANGED <<pdf_names, batch, texts, embeddings, response, attempted, run>>
    /\ UNCHANGED <<runnerVars, chunkVars, idVars, validateVars>>

InitIndex ==
    /\ RunnerIdle
    /\ IdIdle
    /\ ValidateIdle
    /\ chunk_size \in 1..MaxChunkSize
    /\ chunk_overlap \in 0..(chunk_size - 1)
    /\ pages = <<>>
    /\ cpc = "idle"
    /\ page_idx = 0
    /\ start = 0
    /\ chunks = <<>>
    /\ document_id = <<>>
    /\ pdf_names \in PdfLists
    /\ doc_pos = 0
    /\ ipc = "idle"
    /\ batch_pos = 0
    /\ batch = <<>>
    /\ texts = <<>>
    /\ embeddings = <<>>
    /\ index = <<>>
    /\ attempted = <<>>
    /\ upload_results = <<>>
    /\ result = PyNone
    /\ run = 0
    /\ clean = TRUE
    /\ response = PyNone

NextIndex ==
    \/ IndexAllDocuments
    \/ IndexDocument
    \/ ChunkStep
    \/ ChunkNextPage
    \/ ChunkReturn
    \/ StartBatches
    \/ EmbedBatch
    \/ UploadBatch

SpecIndex == InitIndex /\ [][NextIndex]_vars

EmbedInputs == UNION {[1..n -> Texts] : n \in 0..batch_size}

\* embeddings = generate_embeddings(texts)
GenerateEmbeddings ==
    /\ ipc = "generate_embeddings"
    /\ \E resp \in ServiceResponses(texts) :
          /\ response' = resp
          /\ embeddings' = generate_embeddings(texts, resp)
    /\ ipc' = "embedded"
    /\ UNCHANGED <<pdf_names, doc_pos, batch_pos, batch, texts, index, attempted,
                   upload_results, result, run, clean>>
    /\ UNCHANGED <<runnerVars, chunkVars, idVars, validateVars>>

InitEmbed ==
    /\ RunnerIdle
    /\ ChunkIdle
    /\ IdIdle
    /\ ValidateIdle
    /\ pdf_names = <<>>
    /\ doc_pos = 0
    /\ ipc = "generate_embeddings"
    /\ batch_pos = 0
    /\ batch = <<>>
    /\ texts \in EmbedInputs
    /\ embeddings = <<>>
    /\ index = <<>>
    /\ attempted = <<>>
    /\ upload_results = <<>>
    /\ result = PyNone
    /\ run = 0
    /\ clean = TRUE
    /\ response = PyNone

NextEmbed == GenerateEmbeddings

SpecEmbed == InitEmbed /\ [][NextEmbed]_vars

\* C15: whenever the embedding service answers, generate_embeddings returns
\* a list with one vector per input text; for the empty input list that is the
\* empty list, returned without raising.
C15_OneVectorPerText ==
    (ipc = "embedded" /\ response.ok)
        => /\ embeddings # Raised
           /\ Len(embeddings.items) = Len(texts)

\* C16: a batch handed to upload_to_search has at most batch_size chunks, in
\* the order of the chunk list, and every chunk of it carries the vector of
\* its own text, also when the embedding answer was shorter than the batch.
C16_BatchAlignedAndEmbedded ==
    (ipc = "upload")
        => /\ Len(batch) <= batch_size
           /\ \A k \in 1..Len(batch) :
                 /\ batch[k].chunk_id = chunks[batch_pos + k].chunk_id
                 /\ HasVector(batch[k])
                 /\ batch[k].chunk_vector = Embedding(batch[k].content)

\* index_document has ended without raising after uploading at least one batch
ReturnedAfterUpload ==
    /\ ipc \in {"index_document", "done"}
    /\ result \notin {NoRet, Raised}
    /\ upload_results # <<>>

\* C17: index_document uploads every batch although chunks of an earlier batch
\* failed, and when a chunk failed its return value is not None but carries
\* the results of the chunks.
C17_UploadFailuresReturned ==
    ReturnedAfterUpload
        => /\ Len(upload_results) = Len(chunks)
           /\ (\E k \in 1..Len(upload_results) : ~upload_results[k].succeeded)
                 => result # PyNone

\* C18: the documents index_document was called with are the listed ones, in
\* listing order and each once; when index_all_documents ends they are all of
\* them, whichever of them raised.
C18_EveryPdfAttemptedOnce ==
    /\ Len(attempted) <= Len(pdf_names)
    /\ attempted = SubSeq(pdf_names, 1, Len(attempted))
    /\ (ipc = "index_document") => Len(attempted) = doc_pos - 1
    /\ (ipc = "done" /\ run >= 1) => attempted = pdf_names

\* the first of two documents raised and the second is being indexed
C18_Witness ==
    /\ Len(pdf_names) = 2
    /\ attempted = pdf_names
    /\ result = Raised
    /\ ipc = "upload"

(***************************************************************************)
(* EnrichmentValidator                                                     *)
(***************************************************************************)
\* blob names of the container, one of them inside a folder
BlobNames == {<<"a">>, <<"b">>, <<"f", "/", "a">>}

\* get_uploaded_documents: the blobs, or [] without client or on AzureError
UploadedLists ==
    {<<>>} \cup {<<[name |-> a]>> : a \in BlobNames}
           \cup {<<[name |-> a], [name |-> b]>> : a \in BlobNames, b \in BlobNames}

\* a field of an index record that is None or '' is the empty text
StoredNames == {<<>>, <<"a">>, <<"b">>}

\* the records of the index, with the fields the checks read; a field that is
\* None is a key the record does not have (these have no image_blob_urls)
IndexedRecords ==
    [metadata_storage_name : StoredNames, document_id : StoredNames,
     has_related_images : BOOLEAN, content : {<<>>, <<"a">>},
     chunk_id : {<<"k">>}, page_number : {1}, metadata_storage_path : {<<"p">>}]

Repeat(r, n) == [k \in 1..n |-> r]

\* get_indexed_documents: n copies of one record followed by at most one other
\* record, or [] on AzureError
IndexedLists ==
    {Repeat(r, n) \o Repeat(q, m) :
        r \in IndexedRecords, n \in 0..MaxCopies, q \in IndexedRecords, m \in 0..1}

\* name.split('/')[-1]
RECURSIVE basename(_)
basename(name) ==
    IF \E i \in 1..Len(name) : name[i] = "/"
    THEN basename(Tail(name))
    ELSE name

\* doc.get(key, '') of a text field
get_text(doc, key) == IF key \in DOMAIN doc THEN doc[key] ELSE <<>>

\* all_indexed decided by comparing the two counts
validate_document_completeness_by_count(up, ix) ==
    LET indexed_names ==
            {get_text(ix[i], "metadata_storage_name") : i \in 1..Len(ix)} \ {<<>>}
        blob_names == [i \in 1..Len(up) |-> basename(up[i].name)]
        missing == SelectSeq(blob_names, LAMBDA b : b \notin indexed_names)
    IN  [uploaded_count |-> Len(up),
         indexed_count |-> Cardinality(indexed_names),
         missing_documents |-> missing,
         all_indexed |-> (Cardinality(indexed_names) >= Len(up))]

validate_document_completeness(up, ix) ==
    LET indexed_names ==
            {get_text(ix[i], "metadata_storage_name") : i \in 1..Len(ix)} \ {<<>>}
        blob_names == [i \in 1..Len(up) |-> basename(up[i].name)]
        missing == SelectSeq(blob_names, LAMBDA b : b \notin indexed_names)
    IN  [uploaded_count |-> Len(up),
         indexed_count |-> Cardinality(indexed_names),
         missing_documents |-> missing,
         all_indexed |-> (Len(missing) = 0)]

\* doc.get('document_id') or doc.get('metadata_storage_name', 'unknown')
doc_id_of(doc) ==
    IF get_text(doc, "document_id") # <<>> THEN doc.document_id
    ELSE get_text(doc, "metadata_storage_name")

\* a count below half of the mean
too_few_below_half(count, num_docs, total_chunks) == count * 2 * num_docs < total_chunks

\* count < avg_chunks * 0.25 with avg_chunks = total_chunks / num_docs
too_few(count, num_docs, total_chunks) == count * 4 * num_docs < total_chunks

\* count > avg_chunks * 3.0
too_many(count, num_docs, total_chunks) == count * num_docs > 3 * total_chunks

\* the chunks per document and the anomalies (if too_few ... elif too_many)
validate_chunk_generation(ix) ==
    LET ids == {doc_id_of(ix[i]) : i \in 1..Len(ix)}
        doc_chunks == [d \in ids |-> Cardinality({i \in 1..Len(ix) : doc_id_of(ix[i]) = d})]
        total_chunks == Len(ix)
        num_docs == Cardinality(ids)
        anomalies ==
            {[document |-> d, chunks |-> doc_chunks[d], issue |-> "too_few"] :
                d \in {e \in ids : too_few(doc_chunks[e], num_docs, total_chunks)}}
            \cup
            {[document |-> d, chunks |-> doc_chunks[d], issue |-> "too_many"] :
                d \in {e \in ids : ~too_few(doc_chunks[e], num_docs, total_chunks)
                                     /\ too_many(doc_chunks[e], num_docs, total_chunks)}}
    IN  [total_chunks |-> total_chunks,
         documents |-> num_docs,
         chunk_distribution |-> doc_chunks,
         anomalies |-> anomalies]

\* has_images or (image_urls and len(image_urls) > 0), with
\* doc.get('has_related_images', False) and doc.get('image_blob_urls', [])
has_images(doc) ==
    \/ ("has_related_images" \in DOMAIN doc /\ doc.has_related_images)
    \/ ("image_blob_urls" \in DOMAIN doc /\ Len(doc.image_blob_urls) > 0)

validate_image_extraction(ix) ==
    [total_chunks |-> Len(ix),
     chunks_with_images |-> Cardinality({i \in 1..Len(ix) : has_images(ix[i])})]

\* image_percentage < pct, image_percentage being
\* chunks_with_images / total_chunks * 100 if total_chunks > 0 else 0
image_percentage_below(images, pct) ==
    IF images.total_chunks > 0
    THEN images.chunks_with_images * 100 < pct * images.total_chunks
    ELSE 0 < pct

expected_fields ==
    {"chunk_id", "document_id", "content", "page_number",
     "metadata_storage_name", "metadata_storage_path"}

\* the expected fields whose value is a text
text_fields == expected_fields \ {"page_number"}

\* value = doc.get(field); value is not None and value != '' and value != []
populated(doc, field) ==
    /\ field \in DOMAIN doc
    /\ (field \in text_fields) => doc[field] # <<>>

\* coverage <= 95.0
low_coverage_inclusive(count, total_docs) == count * 100 <= 95 * total_docs

\* coverage < 95.0 with coverage = field_counts[field] / total_docs * 100
low_coverage(count, total_docs) == count * 100 < 95 * total_docs

validate_field_population(ix) ==
    IF Len(ix) = 0
    THEN [error |-> "No documents to validate"]
    ELSE LET field_counts == [f \in expected_fields |->
                                 Cardinality({i \in 1..Len(ix) : populated(ix[i], f)})]
         IN  [field_coverage |-> field_counts,
              total_docs |-> Len(ix),
              required_fields |-> expected_fields,
              missing_fields |-> {f \in expected_fields :
                                     low_coverage(field_counts[f], Len(ix))}]

\* a status that is fail as soon as there is an issue
overall_status_strict(n) == IF n = 0 THEN "pass" ELSE "fail"

\* the status of len(issues) issues
overall_status(n) == IF n = 0 THEN "pass" ELSE IF n <= 2 THEN "warning" ELSE "fail"

\* the issues list, in the order the checks are looked at
issues_of(completeness, chunk_result, images, fields) ==
    (IF ~completeness.all_indexed THEN <<"missing_documents">> ELSE <<>>)
        \o (IF chunk_result.anomalies # {} THEN <<"chunk_anomalies">> ELSE <<>>)
        \o (IF image_percentage_below(images, 5) THEN <<"low_image_extraction">> ELSE <<>>)
        \o (IF fields.missing_fields # {} THEN <<"incomplete_fields">> ELSE <<>>)

\* validate_all_documents: report['fields']['missing_fields'] raises KeyError
\* when validate_field_population returned its error dictionary
validate_all_documents(up, ix) ==
    LET completeness == validate_document_completeness(up, ix)
        chunk_result == validate_chunk_generation(ix)
        images == validate_image_extraction(ix)
        fields == validate_field_population(ix)
    IN  IF "missing_fields" \notin DOMAIN fields
        THEN Raised
        ELSE [completeness |-> completeness,
              chunks |-> chunk_result,
              images |-> images,
              fields |-> fields,
              overall_status |->
                  overall_status(Len(issues_of(completeness, chunk_result, images, fields))),
              issues |-> issues_of(completeness, chunk_result, images, fields)]

ValidateAllDocuments ==
    /\ vpc = "validate_all_documents"
    /\ report' = validate_all_documents(uploaded_docs, indexed_docs)
    /\ vpc' = IF validate_all_documents(uploaded_docs, indexed_docs) = Raised
              THEN "raised" ELSE "returned"
    /\ UNCHANGED <<uploaded_docs, indexed_docs>>
    /\ UNCHANGED <<runnerVars, chunkVars, idVars, indexVars>>

InitValidate ==
    /\ RunnerIdle
    /\ ChunkIdle
    /\ IdIdle
    /\ IndexIdle
    /\ uploaded_docs \in UploadedLists
    /\ indexed_docs \in IndexedLists
    /\ report = PyNone
    /\ vpc = "validate_all_documents"

NextValidate == ValidateAllDocuments

SpecValidate == InitValidate /\ [][NextValidate]_vars

(***************************************************************************)
(* Properties of the validator                                             *)
(***************************************************************************)
Statuses == {"pass", "warning", "fail"}

\* the number of the four checks whose result in the report is an issue
IssueCount ==
    (IF ~report.completeness.all_indexed THEN 1 ELSE 0)
        + (IF report.chunks.anomalies # {} THEN 1 ELSE 0)
        + (IF image_percentage_below(report.images, 5) THEN 1 ELSE 0)
        + (IF report.fields.missing_fields # {} THEN 1 ELSE 0)

\* C19: in every report overall_status is pass for 0 issues among the four
\* checks, warning for 1 or 2, fail for 3 or 4, and nothing else.
C19_StatusFromIssueCount ==
    (vpc = "returned")
        => /\ report.overall_status \in Statuses
           /\ Len(report.issues) = IssueCount
           /\ (IssueCount = 0) => report.overall_status = "pass"
           /\ (IssueCount \in {1, 2}) => report.overall_status = "warning"
           /\ (IssueCount >= 3) => report.overall_status = "fail"

\* a report with two issues
C19_Witness ==
    /\ vpc = "returned"
    /\ IssueCount = 2
    /\ report.overall_status = "warning"

\* C20: validate_all_documents returns a report with a status for every
\* combination of uploaded documents and indexed records, the empty index and
\* the empty upload list included; it never raises.
C20_FindingsNeverRaise ==
    (vpc # "validate_all_documents")
        => /\ vpc = "returned"
           /\ report.overall_status \in Statuses

(***************************************************************************)
(* The four checks of the validator called on their own                    *)
(***************************************************************************)
\* index records with every field the checks read
CheckRecords ==
    [metadata_storage_name : StoredNames, document_id : {<<>>, <<"a">>},
     has_related_images : BOOLEAN, image_blob_urls : {<<>>, <<"u">>},
     content : {<<>>, <<"a">>},
     chunk_id : {<<"k">>}, page_number : {1}, metadata_storage_path : {<<"p">>}]

\* the records without document_id and without image urls
OddRecords == {q \in CheckRecords : q.document_id = <<>> /\ q.image_blob_urls = <<>>}

\* a record whose metadata_storage_path is None
PathlessRecord ==
    [metadata_storage_name |-> <<"a">>, document_id |-> <<"a">>,
     has_related_images |-> FALSE, image_blob_urls |-> <<>>, content |-> <<"a">>,
     chunk_id |-> <<"k">>, page_number |-> 1]

\* a complete record of the document with the given name
RecordOf(name) ==
    [metadata_storage_name |-> name, document_id |-> name,
     has_related_images |-> TRUE, image_blob_urls |-> <<"u">>, content |-> <<"a">>,
     chunk_id |-> <<"k">>, page_number |-> 1, metadata_storage_path |-> <<"p">>]

\* ten uploaded documents d0 .. d9, and an index that holds d0 .. d8
TenUploaded == [i \in 1..10 |-> [name |-> <<"d", DigitChars[i]>>]]
NineIndexed == [i \in 1..9 |-> RecordOf(<<"d", DigitChars[i]>>)]

\* four documents with 50, 52, 48 and 2 chunks
DistributionExample ==
    Repeat(RecordOf(<<"d", "0">>), 50) \o Repeat(RecordOf(<<"d", "1">>), 52)
        \o Repeat(RecordOf(<<"d", "2">>), 48) \o Repeat(RecordOf(<<"d", "3">>), 2)

\* four documents with 10, 1, 1 and 1 chunks
SkewedExample ==
    Repeat(RecordOf(<<"d", "0">>), 10) \o <<RecordOf(<<"d", "1">>),
        RecordOf(<<"d", "2">>), RecordOf(<<"d", "3">>)>>

\* samples of the index: n copies of one record and at most one other record
CheckLists ==
    {Repeat(r, n) \o Repeat(q, m) :
        r \in CheckRecords, n \in 0..MaxSample, q \in OddRecords \cup {PathlessRecord},
        m \in 0..1}
    \cup {NineIndexed, DistributionExample, SkewedExample}

CheckUploads ==
    {l \in UploadedLists : Len(l) <= 1}
        \cup {<<[name |-> <<"a">>], [name |-> <<"b">>]>>,
              <<[name |-> <<"a">>], [name |-> <<"f", "/", "a">>]>>,
              TenUploaded}

\* the result of a check called by itself is kept in report
CheckReturns(name, value) ==
    /\ vpc = "idle"
    /\ vpc' = name
    /\ report' = value
    /\ UNCHANGED <<uploaded_docs, indexed_docs>>
    /\ UNCHANGED <<runnerVars, chunkVars, idVars, indexVars>>

ValidateDocumentCompleteness ==
    CheckReturns("validate_document_completeness",
                 validate_document_completeness(uploaded_docs, indexed_docs))

ValidateChunkGeneration ==
    CheckReturns("validate_chunk_generation", validate_chunk_generation(indexed_docs))

ValidateImageExtraction ==
    CheckReturns("validate_image_extraction", validate_image_extraction(indexed_docs))

ValidateFieldPopulation ==
    CheckReturns("validate_field_population", validate_field_population(indexed_docs))

\* report = validator.validate_all_documents() is called
CallValidateAllDocuments ==
    /\ vpc = "idle"
    /\ vpc' = "validate_all_documents"
    /\ UNCHANGED <<uploaded_docs, indexed_docs, report>>
    /\ UNCHANGED <<runnerVars, chunkVars, idVars, indexVars>>

InitChecks ==
    /\ RunnerIdle
    /\ ChunkIdle
    /\ IdIdle
    /\ IndexIdle
    /\ uploaded_docs \in CheckUploads
    /\ indexed_docs \in CheckLists
    /\ report = PyNone
    /\ vpc = "idle"

NextChecks ==
    \/ ValidateDocumentCompleteness
    \/ ValidateChunkGeneration
    \/ ValidateImageExtraction
    \/ ValidateFieldPopulation
    \/ CallValidateAllDocuments
    \/ ValidateAllDocuments

SpecChecks == InitChecks /\ [][NextChecks]_vars

(***************************************************************************)
(* Properties of the checks                                                *)
(***************************************************************************)
\* the index holds a chunk with the file name of the uploaded blob
Represented(blob) ==
    \E i \in 1..Len(indexed_docs) :
        /\ "metadata_storage_name" \in DOMAIN indexed_docs[i]
        /\ indexed_docs[i].metadata_storage_name = basename(blob.name)

\* positions of the uploaded documents that no indexed chunk names
Absent == {i \in 1..Len(uploaded_docs) : ~Represented(uploaded_docs[i])}

\* C21: missing_documents lists, by file name, exactly the uploaded documents
\* that no indexed chunk names, once each; all_indexed is true iff the list is
\* empty; ten uploaded documents of which nine are in the index give one
\* missing document.
C21_MissingDocumentsExact ==
    (vpc = "validate_document_completeness")
        => /\ Len(report.missing_documents) = Cardinality(Absent)
           /\ \A i \in Absent :
                 \E k \in 1..Len(report.missing_documents) :
                     report.missing_documents[k] = basename(uploaded_docs[i].name)
           /\ \A k \in 1..Len(report.missing_documents) :
                 \E i \in Absent :
                     report.missing_documents[k] = basename(uploaded_docs[i].name)
           /\ report.all_indexed <=> (report.missing_documents = <<>>)
           /\ (uploaded_docs = TenUploaded /\ indexed_docs = NineIndexed)
                 => report.missing_documents = <<<<"d", "9">>>>

\* the completeness check of ten uploaded documents against an index with nine
C21_Witness ==
    /\ vpc = "validate_document_completeness"
    /\ uploaded_docs = TenUploaded
    /\ indexed_docs = NineIndexed
    /\ Len(report.missing_documents) = 1
    /\ ~report.all_indexed

\* the chunks report.chunk_distribution counts for document d, and its flags
Flagged(d, issue) ==
    \E a \in report.anomalies : a.document = d /\ a.issue = issue

\* C22: a document is flagged too_few exactly when its chunk count is below a
\* quarter of the mean count per document and too_many exactly when it is
\* above three times the mean; no other document is flagged, a single document
\* never, and of the counts 50, 52, 48, 2 only the document with 2, as too_few.
C22_ChunkAnomaliesExact ==
    (vpc = "validate_chunk_generation")
        => LET dist == report.chunk_distribution
               docs == DOMAIN dist
           IN  /\ docs = {doc_id_of(indexed_docs[i]) : i \in 1..Len(indexed_docs)}
               /\ report.documents = Cardinality(docs)
               /\ report.total_chunks = Len(indexed_docs)
               /\ \A d \in docs :
                     /\ dist[d] = Cardinality({i \in 1..Len(indexed_docs) :
                                                  doc_id_of(indexed_docs[i]) = d})
                     /\ Flagged(d, "too_few")
                           <=> (4 * dist[d] * report.documents < report.total_chunks)
                     /\ Flagged(d, "too_many")
                           <=> (dist[d] * report.documents > 3 * report.total_chunks)
               /\ \A a \in report.anomalies :
                     /\ a.document \in docs
                     /\ a.chunks = dist[a.document]
                     /\ a.issue \in {"too_few", "too_many"}
               /\ (report.documents = 1) => report.anomalies = {}
               /\ (indexed_docs = DistributionExample)
                     => report.anomalies
                           = {[document |-> <<"d", "3">>, chunks |-> 2, issue |-> "too_few"]}

               /\ (indexed_docs = SkewedExample)
                     => report.anomalies
                           = {[document |-> <<"d", "0">>, chunks |-> 10, issue |-> "too_many"]}

\* the chunk check of the four documents with 50, 52, 48 and 2 chunks
C22_Witness ==
    /\ vpc = "validate_chunk_generation"
    /\ indexed_docs = DistributionExample
    /\ Cardinality(report.anomalies) = 1

\* the chunks of the sample in which the field is present and not empty
Covered(field) ==
    {i \in 1..Len(indexed_docs) :
        /\ field \in DOMAIN indexed_docs[i]
        /\ (field # "page_number") => Len(indexed_docs[i][field]) > 0}

\* C23: for a non-empty sample the coverage of each expected field is the
\* share of chunks in which the field is present and non-empty, and
\* missing_fields holds exactly the fields whose coverage is below 95%.
C23_FieldCoverageExact ==
    (vpc = "validate_field_population" /\ indexed_docs # <<>>)
        => /\ DOMAIN report.field_coverage = expected_fields
           /\ report.total_docs = Len(indexed_docs)
           /\ \A f \in expected_fields :
                 /\ report.field_coverage[f] = Cardinality(Covered(f))
                 /\ (f \in report.missing_fields)
                       <=> (100 * Cardinality(Covered(f)) < 95 * Len(indexed_docs))
           /\ report.missing_fields \subseteq expected_fields

\* a sample of 20 chunks, 19 of them with content: 95%, not below
C23_Witness ==
    /\ vpc = "validate_field_population"
    /\ Len(indexed_docs) = 20
    /\ report.field_coverage["content"] = 19
    /\ "content" \notin report.missing_fields
    /\ report.field_coverage["metadata_storage_name"] = 1
    /\ "metadata_storage_name" \in report.missing_fields

\* the chunks of the index that carry at least one visual asset
WithImages ==
    {i \in 1..Len(indexed_docs) :
        \/ indexed_docs[i].has_related_images
        \/ ("image_blob_urls" \in DOMAIN indexed_docs[i]
               /\ indexed_docs[i].image_blob_urls # <<>>)}

\* the image extraction rate of the index is below 5%
RateBelowThreshold ==
    IF Len(indexed_docs) = 0 THEN TRUE
    ELSE 100 * Cardinality(WithImages) < 5 * Len(indexed_docs)

\* the issues of a returned report say low_image_extraction exactly when the
\* rate is below 5%
LowImageIssueInReport ==
    (vpc = "returned")
        => ((\E k \in 1..Len(report.issues) : report.issues[k] = "low_image_extraction")
               <=> RateBelowThreshold)

\* C24: the image extraction rate is the share of chunks with a visual asset
\* (0 for an empty index) and lies in [0, 100]; validate_all_documents ends
\* with a report whose issues contain low_image_extraction exactly when the
\* rate is below 5%.
C24_LowImageIssueExact ==
    /\ (vpc = "validate_image_extraction")
          => /\ report.total_chunks = Len(indexed_docs)
             /\ report.chunks_with_images = Cardinality(WithImages)
             /\ report.chunks_with_images >= 0
             /\ report.chunks_with_images <= report.total_chunks
    /\ (vpc \in {"returned", "raised"}) => vpc = "returned"
    /\ LowImageIssueInReport

(***************************************************************************)
(* The synchronous path followed by a validation run                       *)
(***************************************************************************)
\* the defaults of DocumentIndexer.__init__
DefaultChunkSize == 1000
DefaultChunkOverlap == 200

\* the container holds one manual
ManualName == <<"a">> \o PdfSuffix

\* the fields get_indexed_documents selects
SelectedFields ==
    {"chunk_id", "document_id", "content", "page_number", "state",
     "has_related_images", "image_blob_urls", "image_descriptions",
     "metadata_storage_name", "metadata_storage_path"}

\* a search result: the selected fields of a stored record, a field that is
\* None or was never written being absent
select(record) ==
    [f \in {g \in (DOMAIN record) \cap SelectedFields :
               g \in {"state", "image_descriptions"} => record[g] # PyNone}
        |-> record[f]]

\* the orders in which search can return the documents of the index
SearchResults(ix) ==
    {[k \in 1..Cardinality(DOMAIN ix) |-> select(ix[order[k]])] :
        order \in {o \in [1..Cardinality(DOMAIN ix) -> DOMAIN ix] :
                      \A j, k \in 1..Cardinality(DOMAIN ix) : o[j] = o[k] => j = k}}

\* validate_all_documents starts once index_all_documents is over: it lists
\* the pdf blobs of the container and reads the whole index
GetDocuments ==
    /\ ipc = "done"
    /\ vpc = "idle"
    /\ uploaded_docs' = [k \in 1..Len(pdf_names) |-> [name |-> pdf_names[k]]]
    /\ indexed_docs' \in SearchResults(index)
    /\ vpc' = "validate_all_documents"
    /\ UNCHANGED report
    /\ UNCHANGED <<runnerVars, chunkVars, idVars, indexVars>>

InitEndToEnd ==
    /\ RunnerIdle
    /\ IdIdle
    /\ ValidateIdle
    /\ chunk_size = DefaultChunkSize
    /\ chunk_overlap = DefaultChunkOverlap
    /\ pages = <<>>
    /\ cpc = "idle"
    /\ page_idx = 0
    /\ start = 0
    /\ chunks = <<>>
    /\ document_id = <<>>
    /\ pdf_names = <<ManualName>>
    /\ doc_pos = 0
    /\ ipc = "idle"
    /\ batch_pos = 0
    /\ batch = <<>>
    /\ texts = <<>>
    /\ embeddings = <<>>
    /\ index = <<>>
    /\ attempted = <<>>
    /\ upload_results = <<>>
    /\ result = PyNone
    /\ run = 0
    /\ clean = TRUE
    /\ response = PyNone

NextEndToEnd ==
    \/ IndexAllDocuments
    \/ IndexDocument
    \/ ChunkStep
    \/ ChunkNextPage
    \/ ChunkReturn
    \/ StartBatches
    \/ EmbedBatch
    \/ UploadBatch
    \/ GetDocuments
    \/ ValidateAllDocuments

SpecEndToEnd == InitEndToEnd /\ [][NextEndToEnd]_vars

\* a validation run ended over an index that the synchronous path filled
\* without a failure
ValidatedCleanIngest ==
    /\ vpc \in {"returned", "raised"}
    /\ run >= 1
    /\ clean

\* C25: after the synchronous path ingested the manual of 1200 and 300
\* characters at chunk_size 1000 and chunk_overlap 200 the index holds exactly
\* 3 records, and the validation of these records returns completeness pass,
\* 3 chunks without anomaly and no required field in missing_fields.
C25_EndToEndConsistent ==
    ValidatedCleanIngest
        => /\ Cardinality(DOMAIN index) = 3
           /\ vpc = "returned"
           /\ report.completeness.all_indexed
           /\ report.chunks.total_chunks = 3
           /\ report.chunks.anomalies = {}
           /\ report.fields.missing_fields = {}

(***************************************************************************)
(* Properties of the waiting calls                                         *)
(***************************************************************************)
\* caller c is back from run_indexer(wait=True) with a value
ReturnedFromWait(c) ==
    /\ pc[c] = "done"
    /\ op[c] = "run_indexer"
    /\ exit[c] # "no_wait"
    /\ ret[c] # Raised

\* C26: run_indexer(wait=True) returns True only when its last poll saw a last
\* result success with failed_item_count = 0; when it returns after a success
\* with failed items, a transientFailure, a persistentFailure or the timeout
\* it returns False.
C26_WaitTrueOnlyOnCleanSuccess ==
    \A c \in Callers :
        ReturnedFromWait(c)
            => /\ ret[c] \in {Bool(TRUE), Bool(FALSE)}
               /\ ret[c] = Bool(TRUE)
                     <=> /\ ReadStatus(read[c]) = "success"
                         /\ read[c].ex.items_failed = 0
               /\ exit[c] \in {"timeout", "transientFailure", "persistentFailure"}
                     => ret[c] = Bool(FALSE)

\* run_indexer(wait=True) returned False for a success with failed items
C26_Witness ==
    /\ ReturnedFromWait("c1")
    /\ exit["c1"] = "success"
    /\ read["c1"].ex.items_failed > 0
    /\ ret["c1"] = Bool(FALSE)

\* caller c is back from a trigger and wait call that reports success
TriggerAndWaitSucceeded(c) ==
    /\ pc[c] = "done"
    /\ \/ op[c] = "run_and_wait" /\ ret[c].tag = "tuple" /\ ret[c].success
       \/ op[c] = "run_indexer" /\ exit[c] # "no_wait" /\ ret[c] = Bool(TRUE)

\* C27: when run_and_wait or run_indexer(wait=True) returns success, the run
\* the call triggered has appeared in the remote status and the success
\* record the call read is the record of that run, not of an earlier execution.
C27_SuccessIsOfTriggeredRun ==
    \A c \in {"c1"} :
        TriggerAndWaitSucceeded(c)
            => /\ ~pending
               /\ read[c].ex.id = runs

\* the polls a waiting loop has made fit into its deadline: wait_for_completion
\* has slept poll_interval after each poll but the last, _monitor_execution at
\* least 4 seconds
PollsBounded(c) ==
    /\ op[c] = "wait_for_completion" => elapsed[c] <= timeout[c] + poll_interval[c]
    /\ op[c] = "run_indexer" /\ check_count[c] >= 1
          => 4 * (check_count[c] - 1) < timeout[c]

\* C28: whatever the status reads answer, also when they stay queued, running
\* or transientFailure or keep raising, wait_for_completion and
\* _monitor_execution make a number of polls bounded by their timeout and
\* eventually return.
C28_PollLoopsTerminate ==
    /\ [](\A c \in {"c1"} : PollsBounded(c))
    /\ \A c \in {"c1"} : (pc[c] \in WaitPcs) ~> (pc[c] = "done")

\* a loop returned through its timeout although the status never left queued
C28_Witness ==
    /\ pc["c1"] = "done"
    /\ exit["c1"] = "timeout"
    /\ \A k \in 1..Len(script.answers) :
          script.answers[k].ok /\ script.answers[k].ex.status = "queued"

\* generate_embeddings or upload_to_search raises in this step and
\* index_document is left
BatchRaises ==
    /\ ipc \in {"embed_batch", "upload"}
    /\ ipc' \in {"index_document", "done"}
    /\ result' = Raised

\* the raising step uploads nothing: the index and the uploads of the document
\* stay those of the batches before the failing one
StopsAtFailingBatch ==
    BatchRaises
        => /\ index' = index
           /\ upload_results' = upload_results
           /\ Len(upload_results) = batch_pos
           /\ \A k \in 1..Len(upload_results) :
                 upload_results[k].key = chunks[k].chunk_id
           /\ \A k \in 1..Len(upload_results) :
                 upload_results[k].succeeded => upload_results[k].key \in DOMAIN index

\* every record of the index carries a vector
NoRecordWithoutVector == \A key \in DOMAIN index : HasVector(index[key])

\* C29: when embedding or upload raises on a batch, index_document is left at
\* once, the batches before it stay in the index and neither the failing batch
\* nor a later one is uploaded; and no chunk is ever in the index without a
\* vector.
C29_FailureStopsDocumentNoPartialVectors ==
    /\ [][StopsAtFailingBatch]_vars
    /\ []NoRecordWithoutVector

(***************************************************************************)
(* Re-ingesting a document that changed between two runs                   *)
(***************************************************************************)
\* the blob that is replaced by a shorter version after the first run
ChangedName == <<"a", "a">> \o PdfSuffix

InitReingest ==
    /\ RunnerIdle
    /\ IdIdle
    /\ ValidateIdle
    /\ chunk_size \in 1..MaxChunkSize
    /\ chunk_overlap \in 0..(chunk_size - 1)
    /\ pages = <<>>
    /\ cpc = "idle"
    /\ page_idx = 0
    /\ start = 0
    /\ chunks = <<>>
    /\ document_id = <<>>
    /\ pdf_names = <<ChangedName>>
    /\ doc_pos = 0
    /\ ipc = "idle"
    /\ batch_pos = 0
    /\ batch = <<>>
    /\ texts = <<>>
    /\ embeddings = <<>>
    /\ index = <<>>
    /\ attempted = <<>>
    /\ upload_results = <<>>
    /\ result = PyNone
    /\ run = 0
    /\ clean = TRUE
    /\ response = PyNone

NextReingest ==
    \/ IndexAllDocuments
    \/ IndexDocument
    \/ ChunkStep
    \/ ChunkNextPage
    \/ ChunkReturn
    \/ StartBatches
    \/ EmbedBatch
    \/ UploadBatch

SpecReingest == InitReingest /\ [][NextReingest]_vars

\* the chunk ids of the batch at hand
BatchIds == {batch[k].chunk_id : k \in 1..Len(batch)}

\* a step keeps every chunk id of the index and writes only ids of the batch
\* it uploads
OnlyUpserts ==
    /\ DOMAIN index \subseteq DOMAIN index'
    /\ \A key \in DOMAIN index' :
          (key \notin DOMAIN index \/ index'[key] # index[key])
              => ipc = "upload" /\ key \in BatchIds

\* C30: no step of the synchronous path removes a chunk id from the index, and
\* a step changes only records of the batch it uploads; after a document that
\* became shorter was ingested again, the chunk ids of the offsets that no
\* longer exist are still in the index.
C30_OnlyUpsertsNeverDeletes == [][OnlyUpserts]_vars

\* the second run ingested the shorter version completely and the index still
\* holds a chunk id of the first version that the second one does not have
C30_Witness ==
    /\ run = 2
    /\ ipc = "done"
    /\ result = PyNone
    /\ upload_results # <<>>
    /\ \A k \in 1..Len(upload_results) : upload_results[k].succeeded
    /\ \E key \in DOMAIN index : \A k \in 1..Len(chunks) : chunks[k].chunk_id # key

====
